---- MODULE Spec2Model ----
(***************************************************************************)
(* Model of the post controller of burdy                                   *)
(* (src/src/server/controllers/post.controller.ts).                        *)
(*                                                                         *)
(* The store is the Post table: a function from row id to row.  Every      *)
(* handler runs its statements inside one transaction, so a handler is one *)
(* step: it commits the store its body computed, or, when the body threw,  *)
(* leaves the store as it was and reports the error.                       *)
(*                                                                         *)
(* Strings that the code takes apart (slug, slugPath) are sequences of     *)
(* one-character strings; "" / <<>> / 0 are the JavaScript falsy values    *)
(* the code tests for (absent name, absent slug, absent id or date).       *)
(***************************************************************************)
EXTENDS Integers, Sequences, FiniteSets, TLC

\* ---------------------------------------------------------------- bounds
MaxPosts == 3
MaxLive == 3
MaxVersions == 2
MaxTime == 2

\* ---------------------------------------------------------------- inputs
Sep == "/"
SlugA == <<"a">>
SlugB == <<"b">>
SlugAB == <<"a", "b">>
Slugs == {SlugA, SlugB, SlugAB}
CreateNames == {"n1"}
CopyNames == {"n2"}
Names == {"n1", "n2"}
CreateTypes == {"post", "page"}
ContentTypes == {1}
ContentTypeIds == {1, 2}
Tags == {1}
TagReqs == {[given |-> FALSE, ids |-> {}], [given |-> TRUE, ids |-> {}], [given |-> TRUE, ids |-> {1, 2}]}
Ids == 1..MaxPosts
Title == <<"title">>
BodyX == {[key |-> Title, value |-> "x"]}
Bodies == {{}, BodyX}

\* requests served at the same time: the processes that run an edit
Procs == {1, 2}

VARIABLES posts, nextId, now, res, txs, rd

vars == <<posts, nextId, now, res, txs, rd>>

\* ---------------------------------------------------------------- strings
Alphabet == <<"/", "a", "b", "u">>

CharRank(c) == CHOOSE i \in 1..Len(Alphabet) : Alphabet[i] = c

StartsWith(s, p) == Len(s) >= Len(p) /\ SubSeq(s, 1, Len(p)) = p

\* String.prototype.slice(n)
Slice(s, n) == SubSeq(s, n + 1, Len(s))

\* s < t in the ordering of ORDER BY slugPath ASC
RECURSIVE StrLess(_, _)
StrLess(s, t) ==
  IF s = <<>> THEN t # <<>>
  ELSE IF t = <<>> THEN FALSE
  ELSE IF Head(s) = Head(t) THEN StrLess(Tail(s), Tail(t))
  ELSE CharRank(Head(s)) < CharRank(Head(t))

\* `${parentPath}/${slug}`
JoinPath(parentPath, slug) == parentPath \o <<Sep>> \o slug

\* slugPath.split('/'), pop(), join('/')
DropLastSegment(s) ==
  LET seps == {i \in 1..Len(s) : s[i] = Sep}
  IN IF seps = {} THEN <<>>
     ELSE SubSeq(s, 1, (CHOOSE i \in seps : \A j \in seps : j <= i) - 1)

\* uuidv4(): the n-th value generated
Uuid(n) == <<"u">> \o [i \in 1..n |-> "u"]

\* ---------------------------------------------------------------- store
\* a row as the Post entity creates it: draft, no publish dates
NewRow(type, name, slug, slugPath, parent, contentType, meta, tags, t) ==
  [type |-> type, name |-> name, slug |-> slug, slugPath |-> slugPath,
   parent |-> parent, contentType |-> contentType, meta |-> meta, tags |-> tags,
   status |-> "draft", publishedAt |-> 0, publishedFrom |-> 0,
   publishedUntil |-> 0, updatedAt |-> t]

Insert(store, id, row) ==
  [i \in DOMAIN store \cup {id} |-> IF i = id THEN row ELSE store[i]]

\* the unique constraint on slugPath
UniqueOk(store) ==
  \A i, j \in DOMAIN store : i # j => store[i].slugPath # store[j].slugPath

\* outcome of a statement or of a transaction body: the error thrown ("": none)
\* and the store it leaves
Ok(store) == [err |-> "", store |-> store]
Fail(err, store) == [err |-> err, store |-> store]

\* variant: the writes made before the error stay
Abort_NoRollback(err, before, dirty) == [err |-> err, store |-> dirty]

\* entityManager.transaction: a body that throws err leaves the store as it was
\* before the transaction, not as its writes left it (dirty)
Abort(err, before, dirty) == [err |-> err, store |-> before]

\* save(): insert or update one row; the store raises 23505 on a duplicate
Save(store, id, row) ==
  LET s2 == Insert(store, id, row)
  IN IF UniqueOk(s2) THEN Ok(s2) ELSE Fail("23505", store)

\* findOne with relation 'parent': the joined parent row, if there is one
HasParent(store, post) == post.parent # 0 /\ post.parent \in DOMAIN store

\* the key/value copy of a meta list
CopyMeta(meta) == {[key |-> m.key, value |-> m.value] : m \in meta}

\* variant: the snapshot is saved without the meta of the post
createPostVersion_NoMeta(post, postId, n, t) ==
  NewRow("post_version", post.name, Uuid(2 * n - 1), Uuid(2 * n),
         postId, post.contentType, {}, post.tags, t)

\* createPostVersion: the row it saves as row n
createPostVersion(post, postId, n, t) ==
  NewRow("post_version", post.name, Uuid(2 * n - 1), Uuid(2 * n),
         postId, post.contentType, CopyMeta(post.meta), post.tags, t)

\* updateMeta(manager, Post, post, newMeta, regex): the entries whose key
\* matches are replaced by newMeta (contentOnly: regex is /^content/)
updateMeta(meta, newMeta, contentOnly) ==
  {m \in meta : contentOnly /\ ~(Len(m.key) > 0 /\ m.key[1] = "content")} \cup newMeta

\* getReplaceChildrenQuery: rewrite the prefix old of every slugPath that is
\* old or starts with old + "/"
ReplaceChildren(store, old, new) ==
  [i \in DOMAIN store |->
     IF store[i].slugPath = old \/ StartsWith(store[i].slugPath, old \o <<Sep>>)
     THEN [store[i] EXCEPT !.slugPath = new \o Slice(store[i].slugPath, Len(old))]
     ELSE store[i]]

\* findDescendants(post): ids of the rows at or under post's slugPath
FindDescendants(store, id) ==
  {i \in DOMAIN store :
     \/ store[i].slugPath = store[id].slugPath
     \/ StartsWith(store[i].slugPath, store[id].slugPath \o <<Sep>>)}

\* ---------------------------------------------------------------- handlers
\* Each ...Tx is the body of the handler's transaction on store, with n the
\* id the next inserted row gets and t the current time.

\* variant: the store's error is thrown on as it is
CatchUnique_Rethrow(err) == err

\* catch blocks: the error the handler finally throws
CatchUnique(err) == IF err = "23505" THEN "duplicate_slug" ELSE err
CatchCopy(err) == "duplicate_slug"

\* POST /posts: slugPath of the new post
CreateSlugPath(store, parentId, slug) ==
  IF parentId # 0 THEN JoinPath(store[parentId].slugPath, slug) ELSE slug

CreateTx(store, n, t, parentId, contentTypeId, type, slug, name) ==
  IF parentId # 0 /\ parentId \notin DOMAIN store
  THEN Abort("invalid_parent", store, store)
  ELSE IF contentTypeId # 0 /\ contentTypeId \notin ContentTypes
       THEN Abort("invalid_content_type", store, store)
  ELSE LET s1 == Save(store, n,
                      NewRow(type, name, slug, CreateSlugPath(store, parentId, slug),
                             parentId, contentTypeId, {}, {}, t))
       IN IF s1.err # "" THEN Abort(s1.err, store, s1.store) ELSE s1

\* `content.${key}` for every key of the flattened body
ContentMeta(body) == {[key |-> <<"content">> \o m.key, value |-> m.value] : m \in body}

\* PUT /posts/:postId/content
UpdateContentTx(store, n, t, id, body) ==
  IF id \notin DOMAIN store THEN Abort("invalid_post", store, store)
  ELSE LET post == store[id]
           s1 == Save(store, n, createPostVersion(post, id, n, t))
           s2 == Save(s1.store, id,
                      [post EXCEPT !.meta = updateMeta(post.meta, ContentMeta(body), TRUE),
                                   !.updatedAt = t])
       IN IF s1.err # "" THEN Abort(s1.err, store, s1.store)
          ELSE IF s2.err # "" THEN Abort(s2.err, store, s2.store)
          ELSE s2

\* variant: the new slugPath is the slug alone, whatever the parent
NewSlugPath_SlugOnly(store, post, slug) == slug

\* PUT /posts/:postId: the new slugPath of the renamed post
NewSlugPath(store, post, slug) ==
  IF HasParent(store, post) THEN JoinPath(store[post.parent].slugPath, slug) ELSE slug

\* PUT /posts/:postId: the fields of post after the edits of the request
EditPost(store, post, slug, name, tagReq, t) ==
  [post EXCEPT
     !.slug = IF slug # <<>> THEN slug ELSE @,
     !.slugPath = IF slug # <<>> THEN NewSlugPath(store, post, slug) ELSE @,
     !.name = IF name # "" THEN name ELSE @,
     !.tags = IF tagReq.given THEN tagReq.ids \cap Tags ELSE @,
     !.updatedAt = t]

UpdatePostTx(store, n, t, id, slug, name, tagReq) ==
  IF id \notin DOMAIN store THEN Abort("invalid_post", store, store)
  ELSE IF store[id].type = "post_version" THEN Abort("invalid_post_type", store, store)
  ELSE LET post == store[id]
           s1 == Save(store, n, createPostVersion(post, id, n, t))
           s2 == IF slug = <<>> THEN s1.store
                 ELSE ReplaceChildren(s1.store, post.slugPath, NewSlugPath(store, post, slug))
           s3 == Save(s2, id, EditPost(store, post, slug, name, tagReq, t))
       IN IF s1.err # "" THEN Abort(s1.err, store, s1.store)
          ELSE IF ~UniqueOk(s2) THEN Abort("23505", store, s1.store)
          ELSE IF s3.err # "" THEN Abort(s3.err, store, s3.store)
          ELSE s3

\* variant: the version query does not ask for the parent
FindPostVersion_AnyParent(store, id, versionId) ==
  IF /\ versionId \in DOMAIN store
     /\ store[versionId].type = "post_version"
  THEN versionId ELSE 0

\* POST /posts/:postId/versions/:versionId: the row the version query returns
\* (0: none)
FindPostVersion(store, id, versionId) ==
  IF /\ versionId \in DOMAIN store
     /\ store[versionId].parent = id
     /\ store[versionId].type = "post_version"
  THEN versionId ELSE 0

\* variant: the post keeps its name
RestoredPost_NoName(store, post, postVersion) ==
  [post EXCEPT !.meta = updateMeta(post.meta, postVersion.meta, FALSE),
               !.tags = postVersion.tags]

\* POST /posts/:postId/versions/:versionId: the post as saved
RestoredPost(store, post, postVersion) ==
  [post EXCEPT !.meta = updateMeta(post.meta, postVersion.meta, FALSE),
               !.tags = postVersion.tags,
               !.name = postVersion.name]

\* POST /posts/:postId/versions/:versionId
RestoreTx(store, n, t, id, versionId) ==
  IF id \notin DOMAIN store THEN Abort("invalid_post", store, store)
  ELSE IF FindPostVersion(store, id, versionId) = 0
       THEN Abort("invalid_post_version", store, store)
  ELSE LET post == store[id]
           postVersion == store[versionId]
           s1 == Save(store, n, createPostVersion(post, id, n, t))
           s2 == Save(s1.store, id, RestoredPost(store, post, postVersion))
       IN IF s1.err # "" THEN Abort(s1.err, store, s1.store)
          ELSE IF s2.err # "" THEN Abort(s2.err, store, s2.store)
          ELSE s2

\* variant: unpublishing leaves publishedAt as it was
PublishSet_KeepPublishedAt(row, publish, from, until, t) ==
  IF publish
  THEN [row EXCEPT !.publishedAt = t, !.status = "published",
                   !.publishedFrom = from, !.publishedUntil = until, !.updatedAt = t]
  ELSE [row EXCEPT !.status = "draft",
                   !.publishedFrom = 0, !.publishedUntil = 0, !.updatedAt = t]

\* PUT /posts/publish: the columns the bulk update sets
PublishSet(row, publish, from, until, t) ==
  IF publish
  THEN [row EXCEPT !.publishedAt = t, !.status = "published",
                   !.publishedFrom = from, !.publishedUntil = until, !.updatedAt = t]
  ELSE [row EXCEPT !.publishedAt = 0, !.status = "draft",
                   !.publishedFrom = 0, !.publishedUntil = 0, !.updatedAt = t]

\* variant: the descendants are never added
PublishTargets_RequestedOnly(store, ids, recursive) == ids \cap DOMAIN store

\* PUT /posts/publish: the ids the bulk update is applied to
PublishTargets(store, ids, recursive) ==
  IF recursive
  THEN UNION {FindDescendants(store, i) : i \in ids \cap DOMAIN store}
  ELSE ids \cap DOMAIN store

\* variant: the bulk update runs whatever findByIds returned
PublishTx_NoCheck(store, t, ids, publish, recursive, from, until) ==
  Ok([i \in DOMAIN store |->
        IF i \in PublishTargets(store, ids, recursive)
        THEN PublishSet(store[i], publish, from, until, t)
        ELSE store[i]])

PublishTx(store, t, ids, publish, recursive, from, until) ==
  IF ids \cap DOMAIN store = {} THEN Abort("invalid_ids", store, store)
  ELSE Ok([i \in DOMAIN store |->
             IF i \in PublishTargets(store, ids, recursive)
             THEN PublishSet(store[i], publish, from, until, t)
             ELSE store[i]])

\* DELETE /posts
DeleteTx(store, ids) ==
  Ok([i \in DOMAIN store \ ids |-> store[i]])

\* variant: the type of the rows is not looked at
DeleteVersionsTx_AnyType(store, ids) ==
  Ok([i \in DOMAIN store \ ids |-> store[i]])

\* DELETE /posts/:postId/versions
DeleteVersionsTx(store, ids) ==
  Ok([i \in {j \in DOMAIN store : ~(j \in ids /\ store[j].type = "post_version")}
        |-> store[i]])

\* ---------------------------------------------------------------- copy
\* POST /posts/:postId/copy

\* ids of set S as ORDER BY slugPath ASC returns them
RECURSIVE OrderBySlugPath(_, _)
OrderBySlugPath(store, S) ==
  IF S = {} THEN <<>>
  ELSE LET m == CHOOSE i \in S :
                  \A j \in S \ {i} : StrLess(store[i].slugPath, store[j].slugPath)
       IN <<m>> \o OrderBySlugPath(store, S \ {m})

RecursiveTypes == {"folder", "page", "fragment"}

\* the rows the copy goes through: the source alone, or the query of the subtree
CopyChildren(store, sourceId, recursive) ==
  IF recursive
  THEN OrderBySlugPath(store,
         {i \in DOMAIN store :
            /\ store[i].type \in RecursiveTypes
            /\ \/ store[i].slugPath = store[sourceId].slugPath
               \/ StartsWith(store[i].slugPath, store[sourceId].slugPath \o <<Sep>>)})
  ELSE <<sourceId>>

\* the child as loaded: the source alone is read without its tags relation
CopyChildTags(store, child, recursive) == IF recursive THEN store[child].tags ELSE {}

getSlugPath(store, parentId, sourceId, slug, child) ==
  (IF parentId # 0 THEN store[parentId].slugPath \o <<Sep>> ELSE <<>>)
    \o slug \o Slice(store[child].slugPath, Len(store[sourceId].slugPath))

\* getParent: the first post created so far whose slugPath is slugPath
\* without its last component; 0 when there is none
getParent(store, created, slugPath) ==
  LET hits == {k \in 1..Len(created) :
                 store[created[k]].slugPath = DropLastSegment(slugPath)}
  IN IF hits = {} THEN 0
     ELSE created[CHOOSE k \in hits : \A l \in hits : k <= l]

\* the reduce over children, from the k-th child on
RECURSIVE CopyLoop(_, _, _, _, _, _, _, _, _, _, _)
CopyLoop(src, store, created, children, k, n, t, parentId, sourceId, recursive, req) ==
  IF k > Len(children) THEN Ok(store)
  ELSE LET child == children[k]
           slugPath == getSlugPath(src, parentId, sourceId, req.slug, child)
           isSource == sourceId = child
           row == NewRow(src[child].type,
                         IF isSource THEN req.name ELSE src[child].name,
                         IF isSource THEN req.slug ELSE src[child].slug,
                         slugPath,
                         IF isSource THEN parentId ELSE getParent(store, created, slugPath),
                         src[child].contentType,
                         CopyMeta(src[child].meta),
                         CopyChildTags(src, child, recursive), t)
           s1 == Save(store, n, row)
       IN IF s1.err # "" THEN Abort(s1.err, src, s1.store)
          ELSE CopyLoop(src, s1.store, Append(created, n), children, k + 1, n + 1, t,
                        parentId, sourceId, recursive, req)

CopyTx(store, n, t, sourceId, parentId, recursive, slug, name) ==
  IF parentId # 0 /\ parentId \notin DOMAIN store
  THEN Abort("invalid_parent", store, store)
  ELSE IF sourceId \notin DOMAIN store THEN Abort("invalid_source", store, store)
  ELSE CopyLoop(store, store, <<>>, CopyChildren(store, sourceId, recursive), 1, n, t,
                parentId, sourceId, recursive, [slug |-> slug, name |-> name])

\* ---------------------------------------------------------------- compile
maxDebt == 3

\* variant: the window of a published post is not looked at
isPostPublished_StatusOnly(post, t) == post.status = "published"

\* variant: a post is hidden at the very instant of a bound of its window
isPostPublished_Strict(post, t) ==
  IF post.status = "published"
  THEN IF post.publishedFrom # 0 /\ t <= post.publishedFrom THEN FALSE
       ELSE IF post.publishedUntil # 0 /\ t >= post.publishedUntil THEN FALSE
       ELSE TRUE
  ELSE FALSE

\* isPostPublished(post) evaluated when new Date() is t
isPostPublished(post, t) ==
  IF post.status = "published"
  THEN IF post.publishedFrom # 0 /\ t < post.publishedFrom THEN FALSE
       ELSE IF post.publishedUntil # 0 /\ t > post.publishedUntil THEN FALSE
       ELSE TRUE
  ELSE FALSE

\* content paths that hold a reference to a post, in the order of the keys of
\* parseContent(post).references
RefFields == <<"r1", "r2">>

\* the meta entries the content is parsed from
ContentEntries(meta) == {m \in meta : Len(m.key) = 2 /\ m.key[1] = "content"}

\* parseContent(post).references: the entries at the reference paths
References(meta) ==
  {m \in ContentEntries(meta) : \E k \in 1..Len(RefFields) : m.key[2] = RefFields[k]}

\* parseContent(post).content: at every content path its value, or the
\* placeholder of the reference
ParsedContent(meta) ==
  [key \in {m.key[2] : m \in ContentEntries(meta)} |->
     LET m == CHOOSE e \in ContentEntries(meta) : e.key[2] = key
     IN IF m \in References(meta)
        THEN [kind |-> "ref", value |-> m.value]
        ELSE [kind |-> "value", value |-> m.value]]

\* Object.values(references), from the k-th reference path on
RECURSIVE ReferenceValues(_, _)
ReferenceValues(meta, k) ==
  IF k > Len(RefFields) THEN <<>>
  ELSE LET hit == {m \in References(meta) : m.key[2] = RefFields[k]}
       IN (IF hit = {} THEN <<>> ELSE <<(CHOOSE m \in hit : TRUE).value>>)
            \o ReferenceValues(meta, k + 1)

\* variant: every value is kept
Uniq_KeepAll(s) == s

\* _.uniq: the first occurrence of every value
RECURSIVE Uniq(_)
Uniq(s) ==
  IF s = <<>> THEN <<>>
  ELSE LET init == Uniq(SubSeq(s, 1, Len(s) - 1))
           last == s[Len(s)]
       IN IF \E i \in 1..Len(init) : init[i] = last THEN init ELSE Append(init, last)

\* referencesIds
ReferencesIds(meta) == SelectSeq(Uniq(ReferenceValues(meta, 1)), LAMBDA v : v # "")

\* variant: references are resolved at the ceiling too
Resolves_AtCeiling(debt) == debt <= maxDebt

\* variant: the references stop being resolved one level earlier
Resolves_Shallow(debt) == debt < maxDebt - 1

\* debt < maxDebt
Resolves(debt) == debt < maxDebt

\* findOne({ where }): the row the lookup of compilePost finds (0: none)
CompileLookup(store, slugPath, id) ==
  LET hits == IF slugPath # <<>>
              THEN {i \in DOMAIN store : store[i].slugPath = slugPath}
              ELSE {i \in DOMAIN store : ToString(i) = id}
  IN IF hits = {} THEN 0 ELSE CHOOSE i \in hits : TRUE

\* outcomes of compilePost: it throws err, it returns null, it returns the
\* compiled post; subs are the ids it compiled for its references, depth the
\* largest debt of a call made for it and calls the number of those calls
Throws(err, subs, depth, calls) ==
  [err |-> err, value |-> [null |-> TRUE], subs |-> subs, depth |-> depth, calls |-> calls]
ReturnsNull(debt) ==
  [err |-> "", value |-> [null |-> TRUE], subs |-> <<>>, depth |-> debt, calls |-> 1]
Returns(id, content, subs, depth, calls) ==
  [err |-> "", value |-> [null |-> FALSE, id |-> id, content |-> content],
   subs |-> subs, depth |-> depth, calls |-> calls]

\* variant: a lookup that fails throws whatever allowNull is
getReturn_Throw(allowNull, debt) == Throws("invalid_post", <<>>, debt, 1)

\* getReturn
getReturn(allowNull, debt) ==
  IF allowNull THEN ReturnsNull(debt) ELSE Throws("invalid_post", <<>>, debt, 1)

Max(S) == CHOOSE x \in S : \A y \in S : y <= x

RECURSIVE Sum(_)
Sum(s) == IF s = <<>> THEN 0 ELSE s[1] + Sum(Tail(s))

\* the content after the references are injected: _.set(content, key,
\* postsObj[references[key]]) for every key of references
Inject(content, ids, subs) ==
  [key \in DOMAIN content |->
     IF content[key].kind = "ref"
     THEN LET hits == {k \in 1..Len(ids) : ids[k] = content[key].value}
          IN IF hits = {} THEN [kind |-> "undefined"]
             ELSE [kind |-> "post", post |-> subs[CHOOSE k \in hits : TRUE].value]
     ELSE content[key]]

\* compilePost({ slugPath, id, allowNull }, data, debt) at time t; data is <<>>
\* or <<post>>
RECURSIVE compilePost(_, _, _, _, _, _, _)
compilePost(store, t, slugPath, id, allowNull, data, debt) ==
  IF slugPath = <<>> /\ id = "" /\ data = <<>>
  THEN Throws("invalid_post", <<>>, debt, 1)
  ELSE LET found == CompileLookup(store, slugPath, id)
       IN IF data = <<>> /\ found = 0 THEN getReturn(allowNull, debt)
          ELSE IF data = <<>> /\ ~isPostPublished(store[found], t)
               THEN getReturn(allowNull, debt)
          ELSE LET post == IF data # <<>> THEN data[1]
                           ELSE [id |-> found, meta |-> store[found].meta]
                   content == ParsedContent(post.meta)
                   ids == ReferencesIds(post.meta)
               IN IF Len(ids) > 0 /\ Resolves(debt)
                  THEN LET subs == [k \in 1..Len(ids) |->
                                      compilePost(store, t, <<>>, ids[k], TRUE, <<>>, debt + 1)]
                           depth == Max({subs[k].depth : k \in 1..Len(ids)})
                           calls == 1 + Sum([k \in 1..Len(ids) |-> subs[k].calls])
                           failed == {k \in 1..Len(ids) : subs[k].err # ""}
                       IN IF failed # {}
                          THEN Throws(subs[CHOOSE k \in failed : TRUE].err, ids, depth, calls)
                          ELSE IF \E k \in 1..Len(ids) : subs[k].value.null
                               THEN Throws("TypeError", ids, depth, calls)
                          ELSE Returns(post.id, Inject(content, ids, subs),
                                       ids, depth, calls)
                  ELSE Returns(post.id, content, <<>>, debt, 1)

\* ---------------------------------------------------------------- actions
\* ids a request can name: the rows of the store and one id that resolves to nothing
ReqIds == DOMAIN posts \cup {nextId}

NoRes == [op |-> "", err |-> "", id |-> 0, parentId |-> 0, slug |-> <<>>, versionId |-> 0]

\* a transaction of an edit handler that has not committed: the statement it
\* runs next (pc), the request, the store as its findOne read it, and the rows
\* it has written, which no other connection sees until it commits
NoTx ==
  [pc |-> "idle", op |-> "", id |-> 0,
   edit |-> [slug |-> <<>>, name |-> "", tags |-> [given |-> FALSE, ids |-> {}]],
   content |-> {}, read |-> <<>>, writes |-> <<>>]

\* a call of compilePost under way: the lookups it still has to make and the
\* rows its lookups have returned
NoRd == [pc |-> "idle", todo |-> {}, seen |-> {}]

Init ==
  /\ posts = <<>>
  /\ nextId = 1
  /\ now = 1
  /\ res = NoRes
  /\ txs = [p \in Procs |-> NoTx]
  /\ rd = NoRd

\* the transaction ends with outcome r (the store it leaves, rolled back when it
\* threw) and the handler answers err; taken when r fits the bounds on rows
Commit(r, err, op, id, parentId, slug, versionId) ==
  /\ DOMAIN r.store \subseteq Ids
  /\ Cardinality({i \in DOMAIN r.store : r.store[i].type # "post_version"}) <= MaxLive
  /\ Cardinality({i \in DOMAIN r.store : r.store[i].type = "post_version"}) <= MaxVersions
  /\ posts' = r.store
  /\ nextId' = nextId + Cardinality(DOMAIN r.store \ DOMAIN posts)
  /\ res' = [op |-> op, err |-> err, id |-> id, parentId |-> parentId,
             slug |-> slug, versionId |-> versionId]
  /\ UNCHANGED <<now, txs, rd>>

Create(types, slugs) ==
  \E parentId \in {0} \cup ReqIds, contentTypeId \in ContentTypeIds,
     type \in types, slug \in slugs, name \in CreateNames :
    LET r == CreateTx(posts, nextId, now, parentId, contentTypeId, type, slug, name)
    IN Commit(r, CatchUnique(r.err), "create", 0, parentId, slug, 0)

Copy(slugs, modes, parentIds) ==
  \E sourceId \in ReqIds, parentId \in parentIds, recursive \in modes,
     slug \in slugs, name \in CopyNames :
    LET r == CopyTx(posts, nextId, now, sourceId, parentId, recursive, slug, name)
    IN Commit(r, IF r.err = "" THEN "" ELSE CatchCopy(r.err), "copy",
              sourceId, parentId, slug, 0)

Delete ==
  \E ids \in SUBSET ReqIds :
    /\ ids # {}
    /\ Commit(DeleteTx(posts, ids), "", "delete", 0, 0, <<>>, 0)

UpdateContent(bodies) ==
  \E id \in ReqIds, body \in bodies :
    LET r == UpdateContentTx(posts, nextId, now, id, body)
    IN Commit(r, CatchUnique(r.err), "content", id, 0, <<>>, 0)

UpdatePost(bodies) ==
  \E id \in ReqIds, body \in bodies :
    LET r == UpdatePostTx(posts, nextId, now, id, body.slug, body.name, body.tags)
    IN Commit(r, CatchUnique(r.err), "update", id, 0, body.slug, 0)

Restore ==
  \E id \in ReqIds, versionId \in ReqIds :
    LET r == RestoreTx(posts, nextId, now, id, versionId)
    IN Commit(r, r.err, "restore", id, 0, <<>>, versionId)

Publish(windows, maxIds) ==
  \E ids \in {S \in SUBSET ReqIds : Cardinality(S) \in 1..maxIds}, publish \in BOOLEAN, recursive \in BOOLEAN, w \in windows :
    LET r == PublishTx(posts, now, ids, publish, recursive, w.from, w.until)
    IN Commit(r, r.err, IF publish THEN "publish" ELSE "unpublish", 0, 0, <<>>, 0)

DeleteVersions ==
  \E ids \in SUBSET ReqIds :
    /\ ids # {}
    /\ Commit(DeleteVersionsTx(posts, ids), "", "deleteVersions", 0, 0, <<>>, 0)

\* the clock advances
Tick ==
  /\ now < MaxTime
  /\ now' = now + 1
  /\ UNCHANGED <<posts, nextId, res, txs, rd>>

\* a call of compilePost by a route or by another module: the response is its
\* outcome
Compile(slugPaths, ids, allowNulls, datas) ==
  \E slugPath \in slugPaths, id \in ids, allowNull \in allowNulls, data \in datas :
    LET r == compilePost(posts, now, slugPath, id, allowNull, data, 0)
    IN /\ res' = [op |-> "compile", err |-> r.err, id |-> 0, parentId |-> 0,
                  slug |-> <<>>, versionId |-> 0,
                  args |-> [slugPath |-> slugPath, id |-> id,
                            allowNull |-> allowNull, data |-> data],
                  out |-> r]
       /\ UNCHANGED <<posts, nextId, now, txs, rd>>

\* ---- requests served at the same time
\* A handler awaits each statement of its transaction, so between two of them
\* the statements of other requests can run.  The store isolates the
\* transactions as its default level does (read committed): a statement reads
\* the committed rows and the rows its own transaction wrote, and a statement
\* that updates a row another transaction has updated waits for that one to end.

\* the rows a statement of a transaction with these writes reads
Overlay(store, writes) ==
  [i \in DOMAIN store \cup DOMAIN writes |->
     IF i \in DOMAIN writes THEN writes[i] ELSE store[i]]

\* some row of ids is updated by a transaction other than p that has not ended
Locked(p, ids) ==
  \E q \in Procs \ {p} : ids \cap DOMAIN txs[q].writes \cap DOMAIN posts # {}

\* versions in the store or written by a transaction
VersionsInFlight ==
  Cardinality({i \in DOMAIN posts : posts[i].type = "post_version"})
    + Cardinality(UNION {DOMAIN txs[p].writes \ DOMAIN posts : p \in Procs})

\* the transaction ends: the request is answered and the connection is free
EndTx(p, op, err, id, slug) ==
  /\ txs' = [txs EXCEPT ![p] = NoTx]
  /\ res' = [op |-> op, err |-> err, id |-> id, parentId |-> 0,
             slug |-> slug, versionId |-> 0]

\* PUT /posts/:postId, lines 445-460: findOne of a post that is not a version
BeginUpdate(procs, edits) ==
  \E p \in procs, id \in DOMAIN posts, edit \in edits :
    /\ txs[p].pc = "idle"
    /\ posts[id].type # "post_version"
    /\ txs' = [txs EXCEPT ![p] =
                 [pc |-> "snapshot", op |-> "update", id |-> id, edit |-> edit,
                  content |-> {}, read |-> posts, writes |-> <<>>]]
    /\ UNCHANGED <<posts, nextId, now, res, rd>>

\* PUT /posts/:postId/content, lines 317-330: findOne of the post
BeginContent(procs, bodies) ==
  \E p \in procs, id \in DOMAIN posts, body \in bodies :
    /\ txs[p].pc = "idle"
    /\ txs' = [txs EXCEPT ![p] =
                 [pc |-> "snapshot", op |-> "content", id |-> id, edit |-> NoTx.edit,
                  content |-> body, read |-> posts, writes |-> <<>>]]
    /\ UNCHANGED <<posts, nextId, now, res, rd>>

\* createPostVersion of the post as findOne returned it
Snapshot ==
  \E p \in Procs :
    LET tx == txs[p]
    IN /\ tx.pc = "snapshot"
       /\ VersionsInFlight < MaxVersions
       /\ txs' = [txs EXCEPT ![p] =
                    [tx EXCEPT
                       !.pc = IF tx.op = "update" /\ tx.edit.slug # <<>>
                              THEN "replace" ELSE "save",
                       !.writes = (nextId :> createPostVersion(tx.read[tx.id], tx.id,
                                                                nextId, now))]]
       /\ nextId' = nextId + 1
       /\ UNCHANGED <<posts, now, res, rd>>

\* the query of getReplaceChildrenQuery, lines 479-486
Replace ==
  \E p \in Procs :
    LET tx == txs[p]
        post == tx.read[tx.id]
        view == Overlay(posts, tx.writes)
        s2 == ReplaceChildren(view, post.slugPath, NewSlugPath(tx.read, post, tx.edit.slug))
        changed == {i \in DOMAIN view : s2[i] # view[i]}
    IN /\ tx.pc = "replace"
       /\ ~Locked(p, changed)
       /\ IF UniqueOk(s2)
          THEN /\ txs' = [txs EXCEPT ![p] =
                            [tx EXCEPT !.pc = "save",
                                       !.writes = Overlay(tx.writes,
                                                          [i \in changed |-> s2[i]])]]
               /\ UNCHANGED res
          ELSE EndTx(p, tx.op, CatchUnique("23505"), tx.id, tx.edit.slug)
       /\ UNCHANGED <<posts, nextId, now, rd>>

\* save(post) of the post as findOne returned it, with the changes of the
\* request, and the commit of the transaction
CommitSave ==
  \E p \in Procs :
    LET tx == txs[p]
        post == tx.read[tx.id]
        row == IF tx.op = "update"
               THEN EditPost(tx.read, post, tx.edit.slug, tx.edit.name, tx.edit.tags, now)
               ELSE [post EXCEPT !.meta = updateMeta(post.meta, ContentMeta(tx.content), TRUE),
                                 !.updatedAt = now]
        final == Overlay(Overlay(posts, tx.writes), (tx.id :> row))
    IN /\ tx.pc = "save"
       /\ tx.id \in DOMAIN posts
       /\ ~Locked(p, {tx.id})
       /\ IF UniqueOk(final)
          THEN /\ posts' = final
               /\ EndTx(p, tx.op, "", tx.id, tx.edit.slug)
          ELSE /\ posts' = posts
               /\ EndTx(p, tx.op, CatchUnique("23505"), tx.id, tx.edit.slug)
       /\ UNCHANGED <<nextId, now, rd>>

\* the row a lookup of compilePost returns, as far as the tree is concerned
SeenRow(store, i) ==
  [id |-> i, slug |-> store[i].slug, slugPath |-> store[i].slugPath,
   parent |-> store[i].parent]

\* the sub-compiles that the compile of row i with this debt starts
RefsTodo(store, i, debt) ==
  LET ids == ReferencesIds(store[i].meta)
  IN IF Resolves(debt) THEN {[id |-> ids[k], debt |-> debt + 1] : k \in 1..Len(ids)}
     ELSE {}

\* compilePost({ slugPath }): the findOne of lines 679-682 finds a visible row
ReadRoot(slugPaths) ==
  \E slugPath \in slugPaths :
    LET found == CompileLookup(posts, slugPath, "")
        todo == RefsTodo(posts, found, 0)
    IN /\ rd.pc # "reading"
       /\ found # 0
       /\ isPostPublished(posts[found], now)
       /\ rd' = [pc |-> IF todo = {} THEN "done" ELSE "reading",
                 todo |-> todo, seen |-> {SeenRow(posts, found)}]
       /\ UNCHANGED <<posts, nextId, now, res, txs>>

\* the findOne of one of the sub-compiles that Promise.all (line 703) started;
\* the store answers them in any order
ReadRef ==
  \E t \in rd.todo :
    LET found == CompileLookup(posts, <<>>, t.id)
        todo == (rd.todo \ {t}) \cup RefsTodo(posts, found, t.debt)
    IN /\ rd.pc = "reading"
       /\ IF found = 0 \/ ~isPostPublished(posts[found], now)
          THEN rd' = [rd EXCEPT !.pc = "failed", !.todo = {}]
          ELSE rd' = [pc |-> IF todo = {} THEN "done" ELSE "reading",
                      todo |-> todo, seen |-> rd.seen \cup {SeenRow(posts, found)}]
       /\ UNCHANGED <<posts, nextId, now, res, txs>>

\* ---------------------------------------------------------------- specifications
NoTagReq == [given |-> FALSE, ids |-> {}]

NoWindow == [from |-> 0, until |-> 0]
SlugsAB == {SlugA, SlugB}

\* request bodies of PUT /posts/:postId
Rename(slug) == [slug |-> slug, name |-> "", tags |-> NoTagReq]
Renames(slugs) == {Rename(slug) : slug \in slugs}
NameN2 == [slug |-> <<>>, name |-> "n2", tags |-> NoTagReq]
EditBodies ==
  {Rename(SlugB),
   NameN2,
   [slug |-> <<>>, name |-> "", tags |-> [given |-> TRUE, ids |-> {1, 2}]]}

\* renames in a tree of pages
NextRename ==
  \/ Create({"page"}, Slugs)
  \/ UpdatePost(Renames(Slugs))
  \/ Delete

SpecRename == Init /\ [][NextRename]_vars

\* the slug-path tree: create, copy, rename
NextTree ==
  \/ Create({"page"}, SlugsAB)
  \/ Copy({SlugB}, BOOLEAN, {0} \cup ReqIds)
  \/ UpdatePost(Renames(SlugsAB))

SpecTree == Init /\ [][NextTree]_vars

\* copies of trees of posts and pages
NextCopy ==
  \/ Create(CreateTypes, SlugsAB)
  \/ Copy({SlugB}, BOOLEAN, {0} \cup ReqIds)

SpecCopy == Init /\ [][NextCopy]_vars

\* edits and versions of posts
NextEdit ==
  \/ Create({"page"}, {SlugA})
  \/ UpdateContent(Bodies)
  \/ UpdatePost(EditBodies)
  \/ Restore

SpecEdit == Init /\ [][NextEdit]_vars

\* publish state
NextPublish ==
  \/ Create({"page"}, {SlugA})
  \/ Copy({SlugB}, BOOLEAN, {0})
  \/ Publish({NoWindow}, 1)
  \/ UpdateContent({BodyX})
  \/ Restore

SpecPublish == Init /\ [][NextPublish]_vars

\* versions under every kind of request
NextVersions ==
  \/ Create({"page"}, {SlugA})
  \/ UpdateContent({BodyX})
  \/ UpdatePost({NameN2})
  \/ Restore
  \/ Publish({NoWindow}, 1)
  \/ DeleteVersions

SpecVersions == Init /\ [][NextVersions]_vars

\* publish windows: none, from 2 on, until 1, from 1 until 2
Windows ==
  {NoWindow, [from |-> 2, until |-> 0], [from |-> 0, until |-> 1],
   [from |-> 1, until |-> 2]}

\* GET /content/*: published pages read as time passes
NextVisible ==
  \/ Create({"page"}, {SlugA})
  \/ Publish(Windows, 1)
  \/ Tick
  \/ Compile({SlugA, SlugB}, {""}, {FALSE}, {<<>>})

SpecVisible == Init /\ [][NextVisible]_vars

\* publish and unpublish over a tree of pages, with no window or from 1 until 2
CascadeWindows == {NoWindow, [from |-> 1, until |-> 2]}

NextCascade ==
  \/ Create({"page"}, {SlugA})
  \/ Publish(CascadeWindows, 2)

SpecCascade == Init /\ [][NextCascade]_vars

\* request body of PUT /posts/:postId that sets the tags
TagsOne == [slug |-> <<>>, name |-> "", tags |-> [given |-> TRUE, ids |-> {1, 2}]]

\* copies of pages that have content and tags
NextCopyEdited ==
  \/ Create({"page"}, {SlugA})
  \/ UpdateContent({BodyX})
  \/ UpdatePost({TagsOne})
  \/ Copy({SlugB}, BOOLEAN, {0} \cup ReqIds)

SpecCopyEdited == Init /\ [][NextCopyEdited]_vars

\* A store of pages whose contents refer to one another: what is left after
\* the pages were created, each got its content by a content update, and the
\* versions were deleted.
Pages == 1..(IF MaxPosts < MaxLive THEN MaxPosts ELSE MaxLive)

PageSlug(i) == [k \in 1..i |-> "a"]

\* the id a reference holds: none, or that of a page
RefTargets == {""} \cup {ToString(i) : i \in Pages}

\* the content meta of a page with references r1 and r2 ("": no reference)
RefMeta(r1, r2) ==
  {[key |-> <<"content", RefFields[k]>>, value |-> <<r1, r2>>[k]] :
     k \in {j \in 1..2 : <<r1, r2>>[j] # ""}}

InitCompile ==
  /\ \E g \in [Pages -> RefTargets], h \in RefTargets :
       posts = [i \in Pages |->
                  NewRow("page", "n1", PageSlug(i), PageSlug(i), 0, 1,
                         RefMeta(g[i], IF i = 1 THEN h ELSE ""), {}, 1)]
  /\ nextId = 2 * Cardinality(Pages) + 1
  /\ now = 1
  /\ res = NoRes
  /\ txs = [p \in Procs |-> NoTx]
  /\ rd = NoRd

\* GET /content/a over pages that refer to one another
NextCompile ==
  \/ Publish({NoWindow}, 1)
  \/ Compile({PageSlug(1)}, {""}, {FALSE}, {<<>>})

SpecCompile == InitCompile /\ [][NextCompile]_vars

\* request bodies of PUT /posts/:postId/content that set references
RefBody(r1, r2) ==
  {[key |-> <<RefFields[k]>>, value |-> <<r1, r2>>[k]] :
     k \in {j \in 1..2 : <<r1, r2>>[j] # ""}}

RefBodies == {RefBody("3", "3"), RefBody("1", "3")}

\* GET /content/a over pages whose content is edited to refer to posts
NextRefs ==
  \/ Create({"page"}, {SlugA})
  \/ UpdateContent(RefBodies)
  \/ Publish({NoWindow}, 1)
  \/ Compile({SlugA}, {""}, {FALSE}, {<<>>})

SpecRefs == Init /\ [][NextRefs]_vars

\* ids a call of compilePost can name: none, those of the rows, one of no row
ReqRefs == {""} \cup {ToString(i) : i \in ReqIds}

\* POST /posts/compile: the post built from the request body, never saved
DataPost == [id |-> 0, status |-> "draft", meta |-> ContentMeta(BodyX)]

\* compilePost called in every way its signature allows
NextLookup ==
  \/ Create({"page"}, {SlugA})
  \/ Publish({NoWindow}, 1)
  \/ Compile({<<>>, SlugA, SlugB}, ReqRefs, BOOLEAN, {<<>>, <<DataPost>>})

SpecLookup == Init /\ [][NextLookup]_vars

\* a slug that holds a "/": the validation of POST /posts allows it
SlugBA == <<"b", "/", "a">>

\* recursive copies to 'b' of trees under 'a' when a row is at 'b/a'
NextCopyClash ==
  \/ Create({"page"}, {SlugA, SlugBA})
  \/ Copy({SlugB}, {TRUE}, {0})

SpecCopyClash == Init /\ [][NextCopyClash]_vars

\* Two pages whose contents refer to each other: what is left after the pages
\* were created, each got its content by a content update, and the versions
\* were deleted.
InitInline ==
  /\ posts = [i \in 1..2 |->
                NewRow("page", "n1", PageSlug(i), PageSlug(i), 0, 1,
                       RefMeta(ToString(3 - i), ""), {}, 1)]
  /\ nextId = 5
  /\ now = 1
  /\ res = NoRes
  /\ txs = [p \in Procs |-> NoTx]
  /\ rd = NoRd

\* the body of POST /posts/compile: a post, never saved, that refers to both pages
DataRefs == [id |-> 0, status |-> "draft", meta |-> RefMeta("1", "2")]

\* GET /content/a and POST /posts/compile as the windows of the pages open and
\* close
NextInline ==
  \/ Publish(Windows, 1)
  \/ Tick
  \/ Compile({<<>>, PageSlug(1)}, {""}, {FALSE}, {<<>>, <<DataRefs>>})

SpecInline == InitInline /\ [][NextInline]_vars

\* A published page at 'a' whose content refers to the published page at
\* 'a/a' below it: what is left after page 1 was created, got its content by a
\* content update (version 2), page 3 was created under it, both were
\* published and the version was deleted.
InitSubtree ==
  /\ posts = (1 :> [NewRow("page", "n1", SlugA, SlugA, 0, 1, RefMeta("3", ""), {}, 1)
                      EXCEPT !.status = "published", !.publishedAt = 1])
              @@ (3 :> [NewRow("page", "n1", SlugA, JoinPath(SlugA, SlugA), 1, 1, {}, {}, 1)
                         EXCEPT !.status = "published", !.publishedAt = 1])
  /\ nextId = 4
  /\ now = 1
  /\ res = NoRes
  /\ txs = [p \in Procs |-> NoTx]
  /\ rd = NoRd

\* GET /content/a and GET /content/b while a rename is under way
NextRenameRead ==
  \/ BeginUpdate({1}, Renames(SlugsAB))
  \/ Snapshot
  \/ Replace
  \/ CommitSave
  \/ ReadRoot(SlugsAB)
  \/ ReadRef

SpecRenameRead == InitSubtree /\ [][NextRenameRead]_vars

\* two requests that edit posts at the same time
NextRace ==
  \/ BeginUpdate(Procs, {NameN2, TagsOne})
  \/ BeginContent(Procs, {BodyX})
  \/ Snapshot
  \/ CommitSave

SpecRace == InitSubtree /\ [][NextRace]_vars

\* versions made by content updates and deleted in bulk
NextPrune ==
  \/ Create({"page"}, {SlugA})
  \/ UpdateContent({BodyX})
  \/ DeleteVersions

SpecPrune == Init /\ [][NextPrune]_vars

\* ---------------------------------------------------------------- claims
IsVersion(row) == row.type = "post_version"

\* C1: every post that is not a version has slugPath = slug when it has no
\* parent, and slugPath = parent.slugPath + "/" + slug when it has one.
C1_SlugPathInvariant ==
  \A i \in DOMAIN posts :
    ~IsVersion(posts[i]) =>
      IF posts[i].parent = 0
      THEN posts[i].slugPath = posts[i].slug
      ELSE posts[i].parent \in DOMAIN posts =>
             posts[i].slugPath =
               posts[posts[i].parent].slugPath \o <<Sep>> \o posts[i].slug

\* C2: a content update, an update of slug, name or tags, or a restore of a
\* live post that succeeds adds exactly one row: a post_version whose parent is
\* the post and whose name, meta, tags and contentType are those the post had
\* before the edit; the version rows that were there are left as they were.
C2_EditAddsOneSnapshot ==
  [][(/\ res'.op \in {"content", "update", "restore"}
      /\ res'.err = ""
      /\ posts' # posts
      /\ ~IsVersion(posts[res'.id]))
     => LET id == res'.id
            new == DOMAIN posts' \ DOMAIN posts
        IN /\ DOMAIN posts \subseteq DOMAIN posts'
           /\ Cardinality(new) = 1
           /\ \A v \in new :
                /\ IsVersion(posts'[v])
                /\ posts'[v].parent = id
                /\ posts'[v].name = posts[id].name
                /\ posts'[v].meta = posts[id].meta
                /\ posts'[v].tags = posts[id].tags
                /\ posts'[v].contentType = posts[id].contentType
           /\ \A w \in DOMAIN posts : IsVersion(posts[w]) => posts'[w] = posts[w]]_vars

C2_Witness ==
  /\ res.op = "content"
  /\ res.err = ""
  /\ res.id \in DOMAIN posts
  /\ \E v \in DOMAIN posts :
       /\ IsVersion(posts[v])
       /\ posts[v].parent = res.id
       /\ posts[v].meta # {}
       /\ posts[v].meta # posts[res.id].meta

\* C3: after a rename of P succeeds, every row whose slugPath was P's old path
\* or started with old path + "/" has that prefix replaced by P's new path
\* (the parent's path + "/" + the new slug, or the new slug), and every other
\* row keeps its slugPath.
C3_RenameRewritesSubtree ==
  [][(/\ res'.op = "update"
      /\ res'.err = ""
      /\ res'.slug # <<>>
      /\ posts' # posts)
     => LET id == res'.id
            old == posts[id].slugPath
            new == IF posts[id].parent \in DOMAIN posts
                   THEN posts[posts[id].parent].slugPath \o <<Sep>> \o res'.slug
                   ELSE res'.slug
        IN \A i \in DOMAIN posts :
             /\ i \in DOMAIN posts'
             /\ posts'[i].slugPath =
                  IF \/ posts[i].slugPath = old
                     \/ StartsWith(posts[i].slugPath, old \o <<Sep>>)
                  THEN new \o SubSeq(posts[i].slugPath, Len(old) + 1, Len(posts[i].slugPath))
                  ELSE posts[i].slugPath]_vars

C3_Witness ==
  /\ res.op = "update"
  /\ res.err = ""
  /\ res.slug # <<>>
  /\ res.id \in DOMAIN posts
  /\ posts[res.id].slug = res.slug
  /\ \E d \in DOMAIN posts :
       /\ posts[d].parent = res.id
       /\ ~IsVersion(posts[d])
       /\ StartsWith(posts[d].slugPath, posts[res.id].slugPath \o <<Sep>>)

\* C4: a rename of a live post whose new slugPath is the slugPath of another
\* row fails with duplicate_slug and leaves the store as it was.
C4_RenameCollisionRollsBack ==
  [][(/\ res'.op = "update"
      /\ res'.slug # <<>>
      /\ res'.id \in DOMAIN posts
      /\ ~IsVersion(posts[res'.id])
      /\ LET id == res'.id
             new == IF posts[id].parent \in DOMAIN posts
                    THEN posts[posts[id].parent].slugPath \o <<Sep>> \o res'.slug
                    ELSE res'.slug
         IN \E j \in DOMAIN posts \ {id} : posts[j].slugPath = new)
     => (res'.err = "duplicate_slug" /\ posts' = posts)]_vars

C4_Witness ==
  /\ res.op = "update"
  /\ res.err = "duplicate_slug"
  /\ res.id \in DOMAIN posts
  /\ \E d \in DOMAIN posts :
       /\ posts[d].parent = res.id
       /\ StartsWith(posts[d].slugPath, posts[res.id].slugPath \o <<Sep>>)
  /\ \E j \in DOMAIN posts \ {res.id} : posts[j].slugPath = res.slug
  /\ \A v \in DOMAIN posts : ~IsVersion(posts[v])

\* C5: no two rows that are not versions have the same slugPath; a create
\* under a parent that resolves (or under none) and a rename of a live post
\* whose resulting slugPath is already the slugPath of such a row fail with
\* duplicate_slug (a create can be refused before that for its content type)
\* and leave the store as it was.
C5_UniqueSlugPath ==
  [][/\ \A i, j \in DOMAIN posts' :
          (i # j /\ ~IsVersion(posts'[i]) /\ ~IsVersion(posts'[j]))
            => posts'[i].slugPath # posts'[j].slugPath
     /\ (/\ res'.op = "create"
         /\ res'.parentId \in {0} \cup DOMAIN posts
         /\ LET path == IF res'.parentId = 0 THEN res'.slug
                        ELSE posts[res'.parentId].slugPath \o <<Sep>> \o res'.slug
            IN \E j \in DOMAIN posts : ~IsVersion(posts[j]) /\ posts[j].slugPath = path)
        => (res'.err \in {"duplicate_slug", "invalid_content_type"} /\ posts' = posts)
     /\ (/\ res'.op = "update"
         /\ res'.slug # <<>>
         /\ res'.id \in DOMAIN posts
         /\ ~IsVersion(posts[res'.id])
         /\ LET id == res'.id
                path == IF posts[id].parent \in DOMAIN posts
                        THEN posts[posts[id].parent].slugPath \o <<Sep>> \o res'.slug
                        ELSE res'.slug
            IN \E j \in DOMAIN posts \ {id} : ~IsVersion(posts[j]) /\ posts[j].slugPath = path)
        => (res'.err = "duplicate_slug" /\ posts' = posts)]_vars

C5_Witness ==
  /\ res.op = "create"
  /\ res.err = "duplicate_slug"
  /\ res.parentId \in DOMAIN posts
  /\ \E j \in DOMAIN posts :
       /\ ~IsVersion(posts[j])
       /\ posts[j].parent = res.parentId
       /\ posts[j].slug = res.slug
  /\ \E k \in DOMAIN posts : posts[k].name = "n2"

\* C6: the parent of every post_version row is a row of the store that is not
\* a version.
C6_VersionParentIsLive ==
  \A v \in DOMAIN posts :
    IsVersion(posts[v]) =>
      /\ posts[v].parent \in DOMAIN posts
      /\ ~IsVersion(posts[posts[v].parent])

\* C7: no request changes the name, meta, tags, status or publish dates of a
\* post_version row that stays in the store, and no version is published.
C7_VersionImmutable ==
  [][\A v \in DOMAIN posts \cap DOMAIN posts' :
       IsVersion(posts[v]) =>
         /\ posts'[v].name = posts[v].name
         /\ posts'[v].meta = posts[v].meta
         /\ posts'[v].tags = posts[v].tags
         /\ posts'[v].status = posts[v].status
         /\ posts'[v].publishedAt = posts[v].publishedAt
         /\ posts'[v].publishedFrom = posts[v].publishedFrom
         /\ posts'[v].publishedUntil = posts[v].publishedUntil
         /\ posts'[v].status # "published"]_vars

\* C8: a restore of version V onto post P that succeeds gives P the name, tags
\* and meta of V and adds a post_version of P holding the name, meta and tags
\* P had before the restore.
C8_RestoreSetsAndSnapshots ==
  [][(/\ res'.op = "restore"
      /\ res'.err = ""
      /\ posts' # posts)
     => LET id == res'.id
            vid == res'.versionId
        IN /\ posts'[id].name = posts[vid].name
           /\ posts'[id].tags = posts[vid].tags
           /\ posts'[id].meta = posts[vid].meta
           /\ \E v \in DOMAIN posts' \ DOMAIN posts :
                /\ IsVersion(posts'[v])
                /\ posts'[v].parent = id
                /\ posts'[v].name = posts[id].name
                /\ posts'[v].meta = posts[id].meta
                /\ posts'[v].tags = posts[id].tags]_vars

C8_Witness ==
  /\ res.op = "restore"
  /\ res.err = ""
  /\ res.id \in DOMAIN posts
  /\ res.versionId \in DOMAIN posts
  /\ posts[res.id].name = posts[res.versionId].name
  /\ \E v \in DOMAIN posts \ {res.versionId} :
       /\ IsVersion(posts[v])
       /\ posts[v].parent = res.id
       /\ posts[v].name # posts[res.id].name

\* C9: a restore fails with invalid_post when the post id resolves to no row,
\* and with invalid_post_version when the post resolves but the version id
\* resolves to no row, or to a row whose parent is not the post or whose type
\* is not post_version; a restore that fails leaves the store as it was.
C9_RestoreFailures ==
  [][res'.op = "restore"
     => LET id == res'.id
            vid == res'.versionId
        IN /\ id \notin DOMAIN posts => res'.err = "invalid_post"
           /\ (/\ id \in DOMAIN posts
               /\ ~(/\ vid \in DOMAIN posts
                    /\ posts[vid].parent = id
                    /\ IsVersion(posts[vid])))
              => res'.err = "invalid_post_version"
           /\ res'.err # "" => posts' = posts]_vars

C9_Witness ==
  /\ res.op = "restore"
  /\ res.err = "invalid_post_version"
  /\ res.id \in DOMAIN posts
  /\ res.versionId \in DOMAIN posts
  /\ IsVersion(posts[res.versionId])
  /\ posts[res.versionId].parent # res.id

\* C10: a row has publishedAt set exactly when its status is published.
C10_PublishedAtIffPublished ==
  \A i \in DOMAIN posts :
    (posts[i].publishedAt # 0) <=> (posts[i].status = "published")

C10_Witness ==
  /\ res.op = "unpublish"
  /\ res.err = ""
  /\ \E i, j \in DOMAIN posts :
       /\ posts[i].status = "published"
       /\ posts[j].status = "draft"
       /\ posts[j].updatedAt > 0
       /\ posts[j].name = "n2"

\* C11: isPostPublished at time now is false unless the status is published;
\* for a published post it is false when publishedFrom is set and now is before
\* it, or publishedUntil is set and now is after it, and true otherwise (now
\* equal to a bound counts as visible).
C11_VisibleInWindow ==
  \A i \in DOMAIN posts :
    isPostPublished(posts[i], now) <=>
      /\ posts[i].status = "published"
      /\ ~(posts[i].publishedFrom # 0 /\ now < posts[i].publishedFrom)
      /\ ~(posts[i].publishedUntil # 0 /\ now > posts[i].publishedUntil)

C11_Witness ==
  /\ res.op = "compile"
  /\ res.err = ""
  /\ \E i \in DOMAIN posts :
       /\ posts[i].slugPath = res.args.slugPath
       /\ posts[i].publishedFrom # 0
       /\ posts[i].publishedUntil = now
  /\ \E j \in DOMAIN posts :
       /\ posts[j].status = "published"
       /\ posts[j].publishedUntil # 0
       /\ posts[j].publishedUntil < now

\* i is p or is below p by the parent links, followed at most fuel times
RECURSIVE DescendsFrom(_, _, _, _)
DescendsFrom(store, i, p, fuel) ==
  \/ i = p
  \/ /\ fuel > 0
     /\ store[i].parent \in DOMAIN store
     /\ DescendsFrom(store, store[i].parent, p, fuel - 1)

\* C12: a publish request with recursive set gives every requested post and
\* every descendant of one the status published, publishedAt and the requested
\* window, in the one step of the request; an unpublish request with recursive
\* set makes all of them drafts without publish dates; without recursive only
\* the requested posts change; every other row stays as it was.
C12_RecursivePublish ==
  \A ids \in SUBSET ReqIds, publish \in BOOLEAN, recursive \in BOOLEAN, w \in Windows :
    LET r == PublishTx(posts, now, ids, publish, recursive, w.from, w.until)
        live == {i \in DOMAIN posts : ~IsVersion(posts[i])}
        targets == IF recursive
                   THEN {i \in live : \E p \in ids \cap live :
                                        DescendsFrom(posts, i, p, MaxPosts)}
                          \cup (ids \cap DOMAIN posts)
                   ELSE ids \cap DOMAIN posts
    IN r.err = "" =>
         /\ DOMAIN r.store = DOMAIN posts
         /\ \A i \in DOMAIN posts :
              IF i \in targets
              THEN /\ r.store[i].status = (IF publish THEN "published" ELSE "draft")
                   /\ r.store[i].publishedAt = (IF publish THEN now ELSE 0)
                   /\ r.store[i].publishedFrom = (IF publish THEN w.from ELSE 0)
                   /\ r.store[i].publishedUntil = (IF publish THEN w.until ELSE 0)
              ELSE r.store[i] = posts[i]

C12_Witness ==
  /\ res.op = "publish"
  /\ res.err = ""
  /\ \E q, p, d \in DOMAIN posts :
       /\ posts[p].parent = q
       /\ posts[d].parent = p
       /\ posts[q].status = "draft"
       /\ posts[p].status = "published"
       /\ posts[d].status = "published"
       /\ posts[p].publishedFrom = 1
       /\ posts[d].publishedFrom = 1
       /\ posts[p].publishedUntil = 2
       /\ posts[d].publishedUntil = 2
       /\ posts[p].publishedAt = now
       /\ posts[d].publishedAt = now
       /\ posts[d].updatedAt = posts[p].updatedAt

\* C13: a recursive copy of a source into slug z under destination parent D
\* (or under none) that succeeds creates, for every row that is not a version
\* and whose slugPath is the source's slugPath + suffix, exactly one new post
\* at the destination path + suffix; the copy of the source has parent D (or
\* none) and the copy of any other node has as parent the copy of that node's
\* parent.
C13_RecursiveCopyTree ==
  [][(/\ res'.op = "copy"
      /\ res'.err = ""
      /\ res'.id \in DOMAIN posts
      /\ \E name \in CopyNames :
           posts' = CopyTx(posts, nextId, now, res'.id, res'.parentId, TRUE,
                           res'.slug, name).store)
     => LET src == res'.id
            base == posts[src].slugPath
            dest == IF res'.parentId = 0 THEN res'.slug
                    ELSE posts[res'.parentId].slugPath \o <<Sep>> \o res'.slug
            Suffix(i) == SubSeq(posts[i].slugPath, Len(base) + 1, Len(posts[i].slugPath))
            nodes == {i \in DOMAIN posts :
                        /\ ~IsVersion(posts[i])
                        /\ \/ posts[i].slugPath = base
                           \/ StartsWith(posts[i].slugPath, base \o <<Sep>>)}
            new == DOMAIN posts' \ DOMAIN posts
            CopiesOf(i) == {c \in new : posts'[c].slugPath = dest \o Suffix(i)}
        IN \A i \in nodes :
             /\ Cardinality(CopiesOf(i)) = 1
             /\ \A c \in CopiesOf(i) :
                  IF i = src THEN posts'[c].parent = res'.parentId
                  ELSE /\ posts[i].parent \in nodes
                       /\ posts'[c].parent \in CopiesOf(posts[i].parent)]_vars

\* C14: a copy fails with invalid_parent when its destination parent id
\* resolves to no row, with invalid_source when the parent is fine and the
\* source id resolves to no row, and with duplicate_slug when both resolve, the
\* source is a folder, page or fragment, and the path of its copy is already
\* the slugPath of a row.
C14_CopyFailureKinds ==
  [][res'.op = "copy"
     => LET parentOk == res'.parentId = 0 \/ res'.parentId \in DOMAIN posts
            sourceOk == res'.id \in DOMAIN posts
            dest == IF res'.parentId = 0 THEN res'.slug
                    ELSE posts[res'.parentId].slugPath \o <<Sep>> \o res'.slug
        IN /\ ~parentOk => res'.err = "invalid_parent"
           /\ (parentOk /\ ~sourceOk) => res'.err = "invalid_source"
           /\ (/\ parentOk
               /\ sourceOk
               /\ posts[res'.id].type \in RecursiveTypes
               /\ \E j \in DOMAIN posts : posts[j].slugPath = dest)
              => res'.err = "duplicate_slug"]_vars

\* C15: every post a copy creates, recursive or not, has the meta entries,
\* tags, contentType and type of the source node whose place it takes; the copy
\* of the source has the name and slug of the request, and the copy of a
\* descendant has the name and slug of that descendant.
C15_CopyCarriesOver ==
  [][\A recursive \in BOOLEAN, name \in CopyNames :
       (/\ res'.op = "copy"
        /\ res'.err = ""
        /\ res'.id \in DOMAIN posts
        /\ posts' = CopyTx(posts, nextId, now, res'.id, res'.parentId, recursive,
                           res'.slug, name).store)
       => LET src == res'.id
              base == posts[src].slugPath
              dest == IF res'.parentId = 0 THEN res'.slug
                      ELSE posts[res'.parentId].slugPath \o <<Sep>> \o res'.slug
              Suffix(i) == SubSeq(posts[i].slugPath, Len(base) + 1, Len(posts[i].slugPath))
              nodes == IF recursive
                       THEN {i \in DOMAIN posts :
                               \/ posts[i].slugPath = base
                               \/ StartsWith(posts[i].slugPath, base \o <<Sep>>)}
                       ELSE {src}
          IN \A c \in DOMAIN posts' \ DOMAIN posts :
               \E i \in nodes :
                 /\ posts'[c].slugPath = dest \o Suffix(i)
                 /\ posts'[c].meta = posts[i].meta
                 /\ posts'[c].tags = posts[i].tags
                 /\ posts'[c].contentType = posts[i].contentType
                 /\ posts'[c].type = posts[i].type
                 /\ posts'[c].name = (IF i = src THEN name ELSE posts[i].name)
                 /\ posts'[c].slug = (IF i = src THEN res'.slug ELSE posts[i].slug)]_vars

\* the ids of the rows that compiling row i can reach: i and, for every row
\* reached, the rows its references name; steps bounds the length of the paths
RECURSIVE Reached(_, _, _)
Reached(store, S, steps) ==
  IF steps = 0 THEN S
  ELSE Reached(store,
               S \cup {j \in DOMAIN store :
                         \E i \in S : \E m \in References(store[i].meta) :
                           ToString(j) = m.value},
               steps - 1)

\* every reference below row i, along at most maxDebt references, names a row
\* that is visible at time t
AllReferencesVisible(store, i, t) ==
  \A j \in Reached(store, {i}, maxDebt - 1) :
    \A m \in References(store[j].meta) :
      \E k \in DOMAIN store : ToString(k) = m.value /\ isPostPublished(store[k], t)

\* in the compiled post value, produced by a call with this debt, references
\* are replaced by compiled posts below the ceiling and left as they are at it
RECURSIVE CutAtCeiling(_, _)
CutAtCeiling(value, debt) ==
  \A key \in DOMAIN value.content :
    LET item == value.content[key]
    IN /\ item.kind = "ref" => debt = maxDebt
       /\ item.kind = "post" =>
            /\ debt < maxDebt
            /\ ~item.post.null
            /\ CutAtCeiling(item.post, debt + 1)

\* C16: a compile makes no call of compilePost with a debt above 3 and no more
\* calls than a tree of that depth has, whatever the references are (a post
\* that refers to itself, a cycle); when every
\* referenced post is visible it returns a post in which the references met
\* with debt 0, 1 and 2 are replaced by compiled posts and those met with debt
\* 3 are left unresolved.
C16_CompileTerminates ==
  res.op = "compile" =>
    /\ res.out.depth <= maxDebt
    /\ res.out.calls <= (Len(RefFields) ^ (maxDebt + 1)) - 1
    /\ LET i == CompileLookup(posts, res.args.slugPath, res.args.id)
       IN (/\ res.args.data = <<>>
           /\ i # 0
           /\ isPostPublished(posts[i], now)
           /\ AllReferencesVisible(posts, i, now))
          => /\ res.err = ""
             /\ ~res.out.value.null
             /\ CutAtCeiling(res.out.value, 0)

C16_Witness ==
  /\ res.op = "compile"
  /\ res.err = ""
  /\ res.out.depth = maxDebt
  /\ posts[1].meta = RefMeta("2", "")
  /\ posts[2].meta = RefMeta("3", "")
  /\ posts[3].meta = RefMeta("1", "")
  /\ LET p0 == res.out.value
         p1 == p0.content["r1"].post
         p2 == p1.content["r1"].post
         p3 == p2.content["r1"].post
     IN /\ <<p0.id, p1.id, p2.id, p3.id>> = <<1, 2, 3, 1>>
        /\ p3.content["r1"] = [kind |-> "ref", value |-> "2"]

\* C17: a compile of a post that is found and visible does not raise when a
\* post it refers to, directly or through other posts, resolves to no row or is
\* not visible: it returns a post.
C17_BrokenReferenceOmitted ==
  (/\ res.op = "compile"
   /\ res.args.data = <<>>
   /\ CompileLookup(posts, res.args.slugPath, res.args.id) # 0
   /\ isPostPublished(posts[CompileLookup(posts, res.args.slugPath, res.args.id)], now))
  => /\ res.err = ""
     /\ ~res.out.value.null

\* C19: when two content paths of the post that is compiled hold the same post
\* id and the compile returns, the post of that id was compiled once for this
\* post and both paths hold the same compiled post.
C19_SharedReferenceOnce ==
  (res.op = "compile" /\ res.err = "" /\ ~res.out.value.null /\ res.args.data = <<>>)
  => LET post == posts[CompileLookup(posts, res.args.slugPath, res.args.id)]
     IN \A m1, m2 \in References(post.meta) :
          (m1.key # m2.key /\ m1.value = m2.value)
          => /\ Cardinality({k \in 1..Len(res.out.subs) : res.out.subs[k] = m1.value}) = 1
             /\ res.out.value.content[m1.key[2]].kind = "post"
             /\ res.out.value.content[m1.key[2]] = res.out.value.content[m2.key[2]]

C19_Witness ==
  /\ res.op = "compile"
  /\ res.err = ""
  /\ 1 \in DOMAIN posts
  /\ posts[1].meta = ContentMeta(RefBody("3", "3"))
  /\ res.out.subs = <<"3">>
  /\ res.out.value.content["r1"].kind = "post"
  /\ res.out.value.content["r1"].post.id = 3
  /\ res.out.value.content["r2"].post.id = 3

\* C18: compilePost called with no slugPath, no id and no data throws
\* invalid_post; called without data, with a slugPath or an id for which no row
\* is found or the row found is not visible now, it throws invalid_post when
\* allowNull is not set and returns null when it is; called with data it
\* returns the compiled data, visible or not.
C18_CompileLookupFailures ==
  res.op = "compile" =>
    LET a == res.args
        hits == IF a.slugPath # <<>>
                THEN {i \in DOMAIN posts : posts[i].slugPath = a.slugPath}
                ELSE {i \in DOMAIN posts : ToString(i) = a.id}
        hidden == \A i \in hits :
                    \/ posts[i].status # "published"
                    \/ posts[i].publishedFrom # 0 /\ now < posts[i].publishedFrom
                    \/ posts[i].publishedUntil # 0 /\ now > posts[i].publishedUntil
    IN /\ (a.slugPath = <<>> /\ a.id = "" /\ a.data = <<>>)
            => res.err = "invalid_post"
       /\ (a.data = <<>> /\ (a.slugPath # <<>> \/ a.id # "") /\ hidden)
            => IF a.allowNull
               THEN res.err = "" /\ res.out.value.null
               ELSE res.err = "invalid_post"
       /\ a.data # <<>>
            => /\ res.err = ""
               /\ ~res.out.value.null
               /\ res.out.value.id = a.data[1].id
               /\ DOMAIN res.out.value.content = {m.key[2] : m \in a.data[1].meta}

C18_Witness ==
  /\ res.op = "compile"
  /\ res.err = ""
  /\ res.args.allowNull
  /\ res.args.id = "1"
  /\ res.args.slugPath = <<>>
  /\ res.args.data = <<>>
  /\ 1 \in DOMAIN posts
  /\ posts[1].status = "draft"
  /\ res.out.value.null
  /\ \E i \in DOMAIN posts : posts[i].status = "published"

\* C20: a bulk delete of versions, whatever ids it names, raises no error and
\* removes the rows whose id is named and whose type is post_version; every
\* other row, named or not, stays in the store as it was.
C20_DeleteVersionsOnly ==
  \A ids \in SUBSET ReqIds :
    LET r == DeleteVersionsTx(posts, ids)
    IN /\ r.err = ""
       /\ DOMAIN r.store = DOMAIN posts \ {i \in ids \cap DOMAIN posts : IsVersion(posts[i])}
       /\ \A i \in DOMAIN r.store : r.store[i] = posts[i]

C20_Witness ==
  /\ res.op = "deleteVersions"
  /\ res.err = ""
  /\ nextId > Cardinality(DOMAIN posts) + 1
  /\ \E i, v \in DOMAIN posts :
       /\ ~IsVersion(posts[i])
       /\ posts[i].meta # {}
       /\ IsVersion(posts[v])

\* C22: a publish or unpublish request whose ids name no row fails with
\* invalid_ids and leaves every row, with its status, publishedAt,
\* publishedFrom, publishedUntil and updatedAt, as it was; a request of which
\* at least one id names a row succeeds, and does what the request with only
\* the ids that name a row does.
C22_PublishInvalidIds ==
  \A ids \in SUBSET ReqIds, publish \in BOOLEAN, recursive \in BOOLEAN, w \in Windows :
    LET r == PublishTx(posts, now, ids, publish, recursive, w.from, w.until)
        known == {i \in ids : i \in DOMAIN posts}
    IN IF known = {}
       THEN /\ r.err = "invalid_ids"
            /\ r.store = posts
       ELSE /\ r.err = ""
            /\ r.store = PublishTx(posts, now, known, publish, recursive,
                                   w.from, w.until).store
            /\ \A i \in known :
                 r.store[i].status = (IF publish THEN "published" ELSE "draft")

C22_Witness ==
  /\ res.op = "unpublish"
  /\ res.err = "invalid_ids"
  /\ \E i, j \in DOMAIN posts :
       /\ posts[i].status = "published"
       /\ posts[i].publishedUntil = 2
       /\ posts[j].status = "draft"
       /\ posts[j].updatedAt = now

\* C23: a recursive copy that succeeds creates its posts one after another in
\* ascending order of slugPath, and every post it creates other than the copy
\* of the source has as parent a post the same copy created before it, the one
\* at its slugPath without the last component; no post it creates below the
\* destination path is saved without a parent, whatever the types of the
\* source and of the nodes in between.
C23_CopyParentsFirst ==
  [][(/\ res'.op = "copy"
      /\ res'.err = ""
      /\ res'.id \in DOMAIN posts
      /\ \E name \in CopyNames :
           posts' = CopyTx(posts, nextId, now, res'.id, res'.parentId, TRUE,
                           res'.slug, name).store)
     => LET dest == IF res'.parentId = 0 THEN res'.slug
                    ELSE posts[res'.parentId].slugPath \o <<Sep>> \o res'.slug
            new == DOMAIN posts' \ DOMAIN posts
        IN /\ \A c, d \in new :
                c < d => StrLess(posts'[c].slugPath, posts'[d].slugPath)
           /\ \A c \in new :
                posts'[c].slugPath # dest
                => /\ posts'[c].parent \in new
                   /\ posts'[c].parent < c
                   /\ posts'[posts'[c].parent].slugPath
                        = DropLastSegment(posts'[c].slugPath)]_vars

\* the number of levels of inlined posts below the compiled post value
RECURSIVE Nesting(_)
Nesting(value) ==
  LET inlined == {key \in DOMAIN value.content : value.content[key].kind = "post"}
  IN IF inlined = {} THEN 0
     ELSE 1 + Max({Nesting(value.content[key].post) : key \in inlined})

\* the compiled post values that value holds n levels below it
RECURSIVE InlinedAt(_, _)
InlinedAt(value, n) ==
  IF n = 0 THEN {value}
  ELSE UNION {InlinedAt(value.content[key].post, n - 1) :
                key \in {k \in DOMAIN value.content : value.content[k].kind = "post"}}

\* C24: a post compiled with debt 3 comes back without an error, after one
\* call, with every reference path still holding the id it referred to; in a
\* compiled result posts are inlined at most 3 levels below the root, the
\* posts of the levels above the third have every reference replaced by a
\* compiled post, and those of the third level have none replaced.
C24_SubstituteBelowCeiling ==
  /\ \A i \in DOMAIN posts :
       isPostPublished(posts[i], now) =>
         LET r == compilePost(posts, now, <<>>, ToString(i), TRUE, <<>>, maxDebt)
         IN /\ r.err = ""
            /\ ~r.value.null
            /\ r.calls = 1
            /\ r.value.content = ParsedContent(posts[i].meta)
            /\ \A m \in References(posts[i].meta) :
                 r.value.content[m.key[2]] = [kind |-> "ref", value |-> m.value]
  /\ (res.op = "compile" /\ res.err = "" /\ ~res.out.value.null) =>
       /\ Nesting(res.out.value) <= 3
       /\ \A n \in 0..3 :
            \A v \in InlinedAt(res.out.value, n) :
              \A key \in DOMAIN v.content :
                IF n < 3 THEN v.content[key].kind # "ref"
                ELSE v.content[key].kind # "post"

C24_Witness ==
  /\ res.op = "compile"
  /\ res.err = ""
  /\ posts[1].meta = RefMeta("1", "2")
  /\ posts[2].meta = {}
  /\ Nesting(res.out.value) = 3
  /\ \E v \in InlinedAt(res.out.value, 3) :
       /\ v.id = 1
       /\ v.content["r1"] = [kind |-> "ref", value |-> "1"]
       /\ v.content["r2"] = [kind |-> "ref", value |-> "2"]

\* C25: a copy in which the path of any post to create, the copy of the
\* source or of a node below it, is already the slugPath of a row fails and
\* leaves the store as it was before the request: no post the copy created
\* before the collision remains and the rows of the source subtree are as they
\* were.
C25_CopyCollisionDiscardsAll ==
  \A sourceId \in DOMAIN posts, parentId \in {0} \cup DOMAIN posts,
     recursive \in BOOLEAN, slug \in SlugsAB, name \in CopyNames :
    LET r == CopyTx(posts, nextId, now, sourceId, parentId, recursive, slug, name)
        base == posts[sourceId].slugPath
        dest == IF parentId = 0 THEN slug
                ELSE posts[parentId].slugPath \o <<Sep>> \o slug
        nodes == IF recursive
                 THEN {i \in DOMAIN posts :
                         /\ posts[i].type \in {"folder", "page", "fragment"}
                         /\ \/ posts[i].slugPath = base
                            \/ StartsWith(posts[i].slugPath, base \o <<Sep>>)}
                 ELSE {sourceId}
        taken == {i \in nodes :
                    \E j \in DOMAIN posts :
                      posts[j].slugPath
                        = dest \o SubSeq(posts[i].slugPath, Len(base) + 1,
                                         Len(posts[i].slugPath))}
    IN taken # {} =>
         /\ r.err = "23505"
         /\ CatchCopy(r.err) = "duplicate_slug"
         /\ r.store = posts

C25_Witness ==
  /\ res.op = "copy"
  /\ res.err = "duplicate_slug"
  /\ res.slug = SlugB
  /\ res.id \in DOMAIN posts
  /\ posts[res.id].slugPath = SlugA
  /\ \E c, j \in DOMAIN posts :
       /\ posts[c].parent = res.id
       /\ posts[c].slugPath = <<"a", "/", "a">>
       /\ posts[j].slugPath = <<"b", "/", "a">>
  /\ \A i \in DOMAIN posts : posts[i].slugPath # SlugB

\* C26: in the result of a compile, of a row by its path or of a post given as
\* data, every post inlined for a reference, on every level, is a row that at
\* the time of the compile is published, has started if it has a
\* publishedFrom and has not expired if it has a publishedUntil; so is the
\* compiled row itself when it was looked up.
C26_OnlyVisibleInlined ==
  LET Shown(i) ==
        /\ i \in DOMAIN posts
        /\ posts[i].status = "published"
        /\ posts[i].publishedFrom = 0 \/ posts[i].publishedFrom <= now
        /\ posts[i].publishedUntil = 0 \/ now <= posts[i].publishedUntil
      Clean(r, from) ==
        (r.err = "" /\ ~r.value.null) =>
          \A n \in from..maxDebt : \A v \in InlinedAt(r.value, n) : Shown(v.id)
  IN /\ \A i \in DOMAIN posts :
          Clean(compilePost(posts, now, posts[i].slugPath, "", FALSE, <<>>, 0), 0)
     /\ \A i \in DOMAIN posts :
          Clean(compilePost(posts, now, <<>>, ToString(i), TRUE, <<>>, 0), 0)
     /\ Clean(compilePost(posts, now, <<>>, "", FALSE, <<DataRefs>>, 0), 1)

C26_Witness ==
  /\ res.op = "compile"
  /\ res.err = ""
  /\ res.args.data = <<DataRefs>>
  /\ now = 2
  /\ Nesting(res.out.value) = 3
  /\ res.out.value.content["r1"].post.id = 1
  /\ res.out.value.content["r2"].post.id = 2
  /\ posts[1].status = "published"
  /\ posts[1].publishedFrom = 2
  /\ posts[2].status = "published"
  /\ posts[2].publishedUntil = 2

\* C27: when a content update, or an update of the name or the tags, of a post
\* is followed by the restore onto that post of the version the update
\* created, the restore succeeds and the post has the name, the tags and the
\* meta key/value pairs it had before the update.
C27_EditRestoreRoundTrip ==
  \A id \in DOMAIN posts :
    LET v == nextId
        Back(r1) ==
          r1.err = "" =>
            LET r2 == RestoreTx(r1.store, v + 1, now, id, v)
            IN /\ r2.err = ""
               /\ r2.store[id].name = posts[id].name
               /\ r2.store[id].tags = posts[id].tags
               /\ r2.store[id].meta = posts[id].meta
    IN /\ \A body \in Bodies : Back(UpdateContentTx(posts, v, now, id, body))
       /\ \A body \in EditBodies :
            Back(UpdatePostTx(posts, v, now, id, body.slug, body.name, body.tags))

C27_Witness ==
  /\ res.op = "restore"
  /\ res.err = ""
  /\ res.id \in DOMAIN posts
  /\ res.versionId \in DOMAIN posts
  /\ posts[res.id].meta = {}
  /\ posts[res.versionId].meta = {}
  /\ \E w \in DOMAIN posts :
       /\ w = res.versionId + 1
       /\ posts[w].type = "post_version"
       /\ posts[w].parent = res.id
       /\ posts[w].meta = ContentMeta(BodyX)

\* C21: the rows that the lookups of one compile return while a post is
\* renamed are all rows of the store before the rename or all rows of the
\* store after it: a post and a post below it are never returned with
\* slugPaths that disagree, the one under the old prefix and the other under
\* the new.
C21_RenameAtomicForReaders ==
  \A x, y \in rd.seen :
    y.parent = x.id => y.slugPath = JoinPath(x.slugPath, y.slug)

\* C28: every version that a committed edit adds holds the name, the meta and
\* the tags that the post had in the store just before the commit; and no
\* commit changes the name, the meta or the tags of a post unless it adds a
\* version of that post that holds the values they had.
C28_SnapshotIsPriorState ==
  [][/\ \A v \in DOMAIN posts' \ DOMAIN posts :
          (IsVersion(posts'[v]) /\ posts'[v].parent \in DOMAIN posts)
          => LET prior == posts[posts'[v].parent]
             IN /\ posts'[v].name = prior.name
                /\ posts'[v].meta = prior.meta
                /\ posts'[v].tags = prior.tags
     /\ \A i \in DOMAIN posts \cap DOMAIN posts' :
          (\/ posts'[i].name # posts[i].name
           \/ posts'[i].meta # posts[i].meta
           \/ posts'[i].tags # posts[i].tags)
          => \E v \in DOMAIN posts' \ DOMAIN posts :
               /\ IsVersion(posts'[v])
               /\ posts'[v].parent = i
               /\ posts'[v].name = posts[i].name
               /\ posts'[v].meta = posts[i].meta
               /\ posts'[v].tags = posts[i].tags]_vars

====
